---- MODULE Spec2Model ----
(***************************************************************************)
(* Model of iib/workers/tasks/build.py: the orchestrator task              *)
(* handle_add_request (prepare, dispatch, poll, finish), the per-arch     *)
(* worker task opm_index_add, the job queue's error callback and the      *)
(* request record they share through the IIB API.                         *)
(*                                                                         *)
(* The request record lives in the IIB API (iib.workers.api_utils), whose *)
(* code is not part of build.py; get_request, set_request_state and       *)
(* update_request are modelled from the design document: arches are       *)
(* appended atomically, and a write that would move a complete or failed  *)
(* request to another state is rejected (the caller raises) or ignored.   *)
(***************************************************************************)
EXTENDS Naturals, Sequences, FiniteSets

\* ------------------------------------------------------------------ bounds

\* How many times the orchestrator task is delivered for the request.
MaxRuns == 2
\* Longest add_arches list drawn for the preparation inputs.
MaxAddLen == 2

\* --------------------------------------------------------------- alphabets

\* Architectures of the preparation inputs, in the order sorted() gives them.
ArchOrder == <<"amd64", "arm64", "s390x">>
Arches == {ArchOrder[i] : i \in DOMAIN ArchOrder}

\* sorted(S) for a set of architectures, as a sequence.
RECURSIVE SortedFrom(_, _)
SortedFrom(i, S) ==
    IF i > Len(ArchOrder) THEN <<>>
    ELSE IF ArchOrder[i] \in S THEN <<ArchOrder[i]>> \o SortedFrom(i + 1, S)
    ELSE SortedFrom(i + 1, S)
Sorted(S) == SortedFrom(1, S)

\* set(list)
SetOf(list) == {list[i] : i \in DOMAIN list}

\* Lists over S of length at most n.
RECURSIVE ListsUpTo(_, _)
ListsUpTo(S, n) ==
    IF n = 0 THEN {<<>>}
    ELSE LET shorter == ListsUpTo(S, n - 1)
         IN shorter \cup {Append(l, a) : l \in shorter, a \in S}

\* What skopeo inspect can answer for an image: it cannot be inspected, it is
\* not a v2 manifest list, or it is a manifest list for the arches S.
ImagesOver(S) ==
    {[resolves |-> FALSE, is_list |-> FALSE, arches |-> {}],
     [resolves |-> TRUE, is_list |-> FALSE, arches |-> {}]}
    \cup {[resolves |-> TRUE, is_list |-> TRUE, arches |-> T] : T \in SUBSET S}

NoImage == [present |-> FALSE, resolves |-> FALSE, is_list |-> FALSE, arches |-> {}]
Given(img) == [present |-> TRUE, resolves |-> img.resolves,
               is_list |-> img.is_list, arches |-> img.arches]

\* Inputs of handle_add_request and the configuration it reads. An absent
\* add_arches is the empty list: "if add_arches" treats None and [] alike.
PrepareInputs ==
    [add_arches : ListsUpTo(Arches, MaxAddLen),
     from_index : {NoImage} \cup {Given(i) : i \in ImagesOver(Arches)},
     binary_image : ImagesOver(Arches),
     iib_arches : SUBSET Arches]

SagaImage(S) == [resolves |-> TRUE, is_list |-> TRUE, arches |-> S]
SagaInputs ==
    [add_arches : {<<>>, <<"amd64">>, <<"s390x", "amd64">>},
     from_index : {NoImage,
                   Given([resolves |-> FALSE, is_list |-> FALSE, arches |-> {}]),
                   Given(SagaImage({"s390x"})),
                   Given(SagaImage({"amd64", "arm64"}))},
     binary_image : {SagaImage(Arches), SagaImage({"amd64"})},
     iib_arches : {Arches, {"amd64", "s390x"}}]

\* ------------------------------------------------------- the request store

Reason(text, names) == [text |-> text, names |-> names]

NewRequest ==
    [state |-> "queued",
     state_reason |-> Reason("The request was initiated", <<>>),
     arches |-> {},
     index_image |-> "None",
     binary_image_resolved |-> "None",
     from_index_resolved |-> "None"]

Terminal(s) == s \in {"complete", "failed"}

\* A write that would take a complete or failed request to another state.
StaleWrite(req, payload) ==
    /\ "state" \in DOMAIN payload
    /\ Terminal(req.state)
    /\ payload.state # req.state

\* The record after the fields of payload are applied: arches are appended
\* to the set of finished arches, every other field is replaced.
Patched(req, payload) ==
    [k \in DOMAIN req |->
        IF k \notin DOMAIN payload THEN req[k]
        ELSE IF k = "arches" THEN req.arches \cup SetOf(payload.arches)
        ELSE payload[k]]

PatchedReplacingArches(req, payload) ==
    [k \in DOMAIN req |->
        IF k \notin DOMAIN payload THEN req[k]
        ELSE IF k = "arches" THEN SetOf(payload.arches)
        ELSE payload[k]]

update_request_replacing(req, payload) ==
    IF StaleWrite(req, payload)
    THEN {[ok |-> FALSE, req |-> req], [ok |-> TRUE, req |-> req]}
    ELSE {[ok |-> TRUE, req |-> PatchedReplacingArches(req, payload)]}

update_request_last_writer(req, payload) ==
    {[ok |-> TRUE, req |-> Patched(req, payload)]}

\* update_request(request_id, payload): the outcomes of one PATCH. ok = FALSE
\* is the API refusing the write, which makes the caller raise IIBError.
update_request(req, payload) ==
    IF StaleWrite(req, payload)
    THEN {[ok |-> FALSE, req |-> req], [ok |-> TRUE, req |-> req]}
    ELSE {[ok |-> TRUE, req |-> Patched(req, payload)]}

\* set_request_state(request_id, state, state_reason)
set_request_state(req, state, state_reason) ==
    update_request(req, [state |-> state, state_reason |-> state_reason])

\* ---------------------------------------------------------------- prepare

Error(kind, sep, names) == [kind |-> kind, sep |-> sep, names |-> names]
NoError == Error("None", "", <<>>)
NoArchesMsg == "No arches were provided to build the index image"
BinaryArchMsg == "The binary image is not available for the following arches"
GlobalArchMsg == "Building for the following requested arches is not supported"

\* Lines 263-297 of _prepare_request_for_build: the target arches and the
\* checks on them, from what the inspections answer.
target_arches_add_only(inp) ==
    IF Len(inp.add_arches) > 0 THEN SetOf(inp.add_arches) ELSE {}

target_arches(inp) ==
    LET arches == IF Len(inp.add_arches) > 0 THEN SetOf(inp.add_arches) ELSE {}
    IN IF inp.from_index.present THEN arches \cup inp.from_index.arches ELSE arches

unsupported_names_all(arches, supported) == Sorted(arches)

unsupported_names(arches, supported) == Sorted(arches \ supported)

arches_supported_binary_only(arches, binary_image_arches, iib_arches) ==
    IF ~(arches \subseteq binary_image_arches)
    THEN Error(BinaryArchMsg, ", ",
               unsupported_names(arches, binary_image_arches))
    ELSE NoError

arches_supported(arches, binary_image_arches, iib_arches) ==
    IF ~(arches \subseteq binary_image_arches)
    THEN Error(BinaryArchMsg, ", ",
               unsupported_names(arches, binary_image_arches))
    ELSE IF ~(arches \subseteq iib_arches)
    THEN Error(GlobalArchMsg, ",",
               unsupported_names(arches, iib_arches))
    ELSE NoError

inspect_error(img, name) ==
    IF ~img.resolves THEN Error("Failed to inspect", "", <<name>>)
    ELSE IF ~img.is_list THEN Error("is not a v2 manifest list", "", <<name>>)
    ELSE NoError

prepare_resolve(inp) ==
    LET arches == target_arches(inp)
        err == IF inspect_error(inp.binary_image, "binary_image") # NoError
               THEN inspect_error(inp.binary_image, "binary_image")
               ELSE IF inp.from_index.present
                       /\ inspect_error(inp.from_index, "from_index") # NoError
               THEN inspect_error(inp.from_index, "from_index")
               ELSE IF arches = {}
               THEN Error(NoArchesMsg, "", <<>>)
               ELSE arches_supported(arches, inp.binary_image.arches, inp.iib_arches)
    IN [err |-> err,
        arches |-> IF err = NoError THEN arches ELSE {},
        binary_image_resolved |->
            IF inp.binary_image.resolves THEN "binary_image@digest" ELSE "None",
        from_index_resolved |->
            IF inp.from_index.present /\ inp.from_index.resolves
            THEN "from_index@digest" ELSE "None"]

\* --------------------------------------------------------------- _run_cmd

\* A string is a sequence of atoms: the characters of a credential string, and
\* whole words for everything else.
Str(word) == <<word>>

\* sep.join(strings)
RECURSIVE Join(_, _)
Join(strings, sep) ==
    IF strings = <<>> THEN <<>>
    ELSE IF Len(strings) = 1 THEN strings[1]
    ELSE strings[1] \o sep \o Join(Tail(strings), sep)

\* Whether pattern occurs in text.
Contains(text, pattern) ==
    /\ Len(pattern) <= Len(text)
    /\ \E i \in 1..Len(text) :
          /\ i + Len(pattern) <= Len(text) + 1
          /\ SubSeq(text, i, i + Len(pattern) - 1) = pattern

\* conf['iib_registry_credentials']: user:pass, where the password may hold
\* a colon of its own.
RegistryCredentials ==
    {<<"u", ":", "p">>, <<"u", ":", "p", ":", "q">>, <<"u", "v", ":", "p", "q">>}

\* credentials.split(':', 1)
RECURSIVE ColonAt(_, _)
ColonAt(s, i) == IF s[i] = ":" THEN i ELSE ColonAt(s, i + 1)
Username(credentials) == SubSeq(credentials, 1, ColonAt(credentials, 1) - 1)
Password(credentials) ==
    SubSeq(credentials, ColonAt(credentials, 1) + 1, Len(credentials))

\* The commands build.py runs through _run_cmd, each with its exc_msg.
Commands(credentials) ==
    {[cmd |-> <<Str("podman"), Str("build"), Str("-f"), Str("index.Dockerfile"),
                Str("-t"), Str("operator-registry-index:request_id"), Str(".")>>,
      exc_msg |-> Str("Failed to build the index image on the arch")],
     [cmd |-> <<Str("podman"), Str("rmi"), Str("--all"), Str("--force")>>,
      exc_msg |-> Str("Failed to remove the existing container images")],
     [cmd |-> <<Str("manifest-tool"), Str("--username"), Username(credentials),
                Str("--password"), Password(credentials), Str("push"),
                Str("from-spec"), Str("manifest.yaml")>>,
      exc_msg |-> Str("Failed to push the manifest list to registry/iib-build")],
     [cmd |-> <<Str("podman"), Str("push"), Str("-q"),
                Str("operator-registry-index:request_id"),
                Str("docker://registry/iib-build:request_id-arch"),
                Str("--creds"), credentials>>,
      exc_msg |-> Str("Failed to push the index image to registry on the arch")],
     [cmd |-> <<Str("skopeo"), Str("inspect"), Str("docker://pull_spec"), Str("--raw")>>,
      exc_msg |-> Str("Failed to inspect docker://pull_spec")],
     [cmd |-> <<Str("skopeo"), Str("inspect"), Str("docker://pull_spec")>>,
      exc_msg |-> Str("Failed to inspect docker://pull_spec")],
     [cmd |-> <<Str("opm"), Str("index"), Str("add"), Str("--generate"),
                Str("--bundles"), Str("bundles"), Str("--binary-image"),
                Str("binary_image@digest")>>,
      exc_msg |-> Str("Failed to add the bundles to the index image on the arch")],
     [cmd |-> <<Str("opm"), Str("index"), Str("add"), Str("--generate"),
                Str("--bundles"), Str("bundles"), Str("--binary-image"),
                Str("binary_image@digest"), Str("--from-index"),
                Str("from_index@digest")>>,
      exc_msg |-> Str("Failed to add the bundles to the index image on the arch")]}

HasArg(cmd, arg) == \E i \in DOMAIN cmd : cmd[i] = arg

\* What a failing command can write to stderr: nothing, a message of its
\* own, or a message that repeats the password or the credentials it was
\* given on its command line.
StderrTexts(cmd, credentials) ==
    {<<>>, Str("unauthorized: authentication required")}
    \cup (IF HasArg(cmd, Password(credentials))
            THEN {Str("invalid password ") \o Password(credentials)} ELSE {})
    \cup (IF HasArg(cmd, credentials)
            THEN {Str("login with ") \o credentials \o Str(" was denied"),
                  Str("invalid password ") \o Password(credentials)}
            ELSE {})

Redacted == Str("********")

\* Lines 520-524: the arguments that are the credentials or the password
\* are replaced.
sanitized_cmd(cmd, credentials) ==
    [i \in DOMAIN cmd |->
        IF cmd[i] \in {credentials, Password(credentials)} THEN Redacted ELSE cmd[i]]

\* Line 525: the text log.error writes.
error_log(cmd, credentials, stderr) ==
    Str("The command \"") \o Join(sanitized_cmd(cmd, credentials), Str(" "))
        \o Str("\" failed with: ") \o stderr

\* Line 526: the message of the IIBError.
error_message(exc_msg) ==
    IF exc_msg # <<>> THEN exc_msg ELSE Str("An unexpected error occurred")

NoCall ==
    [pc |-> "none", cmd |-> <<>>, exc_msg |-> <<>>, credentials |-> <<>>,
     returncode |-> 0, stderr |-> <<>>, log |-> <<>>, raised |-> <<>>]

\* ------------------------------------------------------------------ state

VARIABLES
    inputs,      \* the arguments of handle_add_request and the configuration
    request,     \* the request record in the IIB API
    orch,        \* the running handle_add_request task
    wpc,         \* each arch's opm_index_add task: where it is
    wread,       \* the request state each worker read at line 452
    wsteps,      \* the steps each worker has run, in order
    registry,    \* what was pushed to the registry for this request
    dispatched,  \* the queues handle_add_request submitted to, in order
    poll_obs,    \* the request as the last poll of this run read it
    marked,      \* arches whose error callback set the request to failed
    shell        \* one call of _run_cmd: its command, what ran, what it logged

vars == <<inputs, request, orch, wpc, wread, wsteps, registry, dispatched,
          poll_obs, marked, shell>>

NoObs == [state |-> "None", arches |-> {}]

NewOrch(run, req) ==
    [pc |-> "prepare_set_state", run |-> run, start_state |-> req.state,
     err |-> NoError, arches |-> {}, arches_remaining |-> {},
     to_dispatch |-> <<>>, binary_image_resolved |-> "None",
     from_index_resolved |-> "None", poll_result |-> "None",
     push_attempts |-> 0]

InitRequest(inp) ==
    /\ inputs = inp
    /\ request = NewRequest
    /\ orch = NewOrch(1, NewRequest)
    /\ wpc = [a \in Arches |-> "idle"]
    /\ wread = [a \in Arches |-> "None"]
    /\ wsteps = [a \in Arches |-> <<>>]
    /\ registry = [images |-> {}, manifest_pushes |-> 0, manifest_arches |-> <<>>]
    /\ dispatched = <<>>
    /\ poll_obs = NoObs
    /\ marked = {}

InitWith(inp) == InitRequest(inp) /\ shell = NoCall

Init == \E inp \in SagaInputs : InitWith(inp)

InitPrepare == \E inp \in PrepareInputs : InitWith(inp)

Raise_swallowed(err) == [orch EXCEPT !.pc = "prepare_update", !.err = err]

\* An IIBError raised in handle_add_request ends the task.
Raise(err) == [orch EXCEPT !.pc = "raised", !.err = err]
WriteRefused == Error("The API refused the update", "", <<>>)

\* ------------------------------------------- handle_add_request: prepare

\* Line 261.
PrepareSetState ==
    /\ orch.pc = "prepare_set_state"
    /\ \E out \in set_request_state(request, "in_progress",
                                    Reason("Resolving the images", <<>>)) :
         /\ request' = out.req
         /\ orch' = IF out.ok THEN [orch EXCEPT !.pc = "prepare_resolve"]
                    ELSE Raise(WriteRefused)
    /\ UNCHANGED <<shell, inputs, wpc, wread, wsteps, registry, dispatched, poll_obs, marked>>

\* Lines 263-297.
PrepareResolve ==
    /\ orch.pc = "prepare_resolve"
    /\ LET r == prepare_resolve(inputs)
       IN orch' = IF r.err # NoError THEN Raise(r.err)
                  ELSE [orch EXCEPT !.pc = "prepare_update",
                                    !.arches = r.arches,
                                    !.binary_image_resolved = r.binary_image_resolved,
                                    !.from_index_resolved = r.from_index_resolved]
    /\ UNCHANGED <<shell, inputs, request, wpc, wread, wsteps, registry, dispatched,
                   poll_obs, marked>>

prepare_payload(o) ==
    LET base == [binary_image_resolved |-> o.binary_image_resolved,
                 state |-> "in_progress",
                 state_reason |->
                     Reason("Scheduling index image builds for the following arches",
                            Sorted(o.arches))]
    IN IF o.from_index_resolved # "None"
       THEN [k \in DOMAIN base \cup {"from_index_resolved"} |->
                IF k = "from_index_resolved" THEN o.from_index_resolved ELSE base[k]]
       ELSE base

\* Lines 299-313 and 414-416: the update, then the sorted arches to dispatch.
PrepareUpdate ==
    /\ orch.pc = "prepare_update"
    /\ \E out \in update_request(request, prepare_payload(orch)) :
         /\ request' = out.req
         /\ orch' = IF out.ok
                    THEN [orch EXCEPT !.pc = "dispatch",
                                      !.to_dispatch = Sorted(orch.arches)]
                    ELSE Raise(WriteRefused)
    /\ UNCHANGED <<shell, inputs, wpc, wread, wsteps, registry, dispatched, poll_obs, marked>>

NextPrepare == PrepareSetState \/ PrepareResolve \/ PrepareUpdate

SpecPrepare == InitPrepare /\ [][NextPrepare]_vars

\* ------------------------------------------ handle_add_request: dispatch

queue_name_first_arch(arch) == <<"iib", ArchOrder[1]>>

queue_name(arch) == <<"iib", arch>>

\* Lines 416-429: one apply_async per arch of sorted(arches), each with the
\* error callback bound to the request.
Dispatch ==
    /\ orch.pc = "dispatch"
    /\ orch.to_dispatch # <<>>
    /\ LET arch == Head(orch.to_dispatch)
       IN /\ wpc' = [wpc EXCEPT ![arch] = "queued"]
          /\ wread' = [wread EXCEPT ![arch] = "None"]
          /\ wsteps' = [wsteps EXCEPT ![arch] = <<>>]
          /\ dispatched' = Append(dispatched, queue_name(arch))
          /\ orch' = [orch EXCEPT !.to_dispatch = Tail(orch.to_dispatch),
                                  !.pc = IF Tail(orch.to_dispatch) = <<>>
                                         THEN "poll" ELSE "dispatch",
                                  !.arches_remaining = orch.arches]
    /\ UNCHANGED <<shell, inputs, request, registry, poll_obs, marked>>

\* ---------------------------------------------- handle_add_request: poll

poll_decision_ignoring_state(req, arches_remaining) ==
    LET remaining == arches_remaining \ req.arches
    IN IF remaining = {} THEN [result |-> "True", arches_remaining |-> remaining]
       ELSE [result |-> "None", arches_remaining |-> remaining]

poll_decision_any_progress(req, arches_remaining) ==
    LET remaining == arches_remaining \ req.arches
    IN IF req.state # "in_progress"
       THEN [result |-> "False", arches_remaining |-> arches_remaining]
       ELSE IF remaining # arches_remaining
       THEN [result |-> "True", arches_remaining |-> remaining]
       ELSE [result |-> "None", arches_remaining |-> remaining]

poll_decision_giving_up(req, arches_remaining) ==
    LET remaining == arches_remaining \ req.arches
    IN IF req.state # "in_progress" \/ (remaining = arches_remaining /\ remaining # {})
       THEN [result |-> "False", arches_remaining |-> arches_remaining]
       ELSE IF remaining = {}
       THEN [result |-> "True", arches_remaining |-> remaining]
       ELSE [result |-> "None", arches_remaining |-> remaining]

poll_decision_never_subtracting(req, arches_remaining) ==
    IF req.state # "in_progress"
    THEN [result |-> "False", arches_remaining |-> arches_remaining]
    ELSE IF arches_remaining = {}
    THEN [result |-> "True", arches_remaining |-> arches_remaining]
    ELSE [result |-> "None", arches_remaining |-> arches_remaining]

poll_decision_progress_first(req, arches_remaining) ==
    LET remaining == arches_remaining \ req.arches
    IN IF remaining = {}
       THEN [result |-> "True", arches_remaining |-> remaining]
       ELSE IF req.state # "in_progress"
       THEN [result |-> "False", arches_remaining |-> arches_remaining]
       ELSE [result |-> "None", arches_remaining |-> remaining]

\* Lines 346-352 of _poll_request, on the request one get_request returned:
\* "False", "True", or "None" to sleep and poll again.
poll_decision(req, arches_remaining) ==
    LET remaining == arches_remaining \ req.arches
    IN IF req.state # "in_progress"
       THEN [result |-> "False", arches_remaining |-> arches_remaining]
       ELSE IF remaining = {}
       THEN [result |-> "True", arches_remaining |-> remaining]
       ELSE [result |-> "None", arches_remaining |-> remaining]

after_poll_always_finish(result) ==
    IF result = "None" THEN "poll" ELSE "finish_set_state"

\* Lines 431-435 of handle_add_request: where a poll result leads.
after_poll(result) ==
    IF result = "False" THEN "returned"
    ELSE IF result = "True" THEN "finish_set_state"
    ELSE "poll"

\* One iteration of the loop of _poll_request (lines 332-352).
Poll ==
    /\ orch.pc = "poll"
    /\ LET d == poll_decision(request, orch.arches_remaining)
       IN orch' = [orch EXCEPT !.arches_remaining = d.arches_remaining,
                               !.poll_result = d.result,
                               !.pc = after_poll(d.result)]
    /\ poll_obs' = [state |-> request.state, arches |-> request.arches]
    /\ UNCHANGED <<shell, inputs, request, wpc, wread, wsteps, registry, dispatched, marked>>

\* -------------------------------------------- handle_add_request: finish

\* Line 138.
FinishSetState ==
    /\ orch.pc = "finish_set_state"
    /\ \E out \in set_request_state(request, "in_progress",
                                    Reason("Creating the manifest list", <<>>)) :
         /\ request' = out.req
         /\ orch' = IF out.ok THEN [orch EXCEPT !.pc = "finish_push"]
                    ELSE Raise(WriteRefused)
    /\ UNCHANGED <<shell, inputs, wpc, wread, wsteps, registry, dispatched, poll_obs, marked>>

FinishPush_ignoring_failure ==
    /\ orch.pc = "finish_push"
    /\ \E pushed \in BOOLEAN :
         /\ registry' = IF pushed
                        THEN [registry EXCEPT
                                 !.manifest_pushes = registry.manifest_pushes + 1,
                                 !.manifest_arches = Sorted(orch.arches)]
                        ELSE registry
         /\ orch' = IF pushed
                    THEN [orch EXCEPT !.pc = "finish_update",
                                      !.push_attempts = orch.push_attempts + 1]
                    ELSE [orch EXCEPT !.pc = "finish_update",
                                      !.push_attempts = orch.push_attempts + 1,
                                      !.err = Error("Failed to push the manifest list",
                                                    "", <<>>)]
    /\ UNCHANGED <<shell, inputs, request, wpc, wread, wsteps, dispatched, poll_obs, marked>>

\* Line 139, _create_and_push_manifest_list: the manifest of sorted(arches)
\* is pushed with manifest-tool, which succeeds or fails.
FinishPush ==
    /\ orch.pc = "finish_push"
    /\ \E pushed \in BOOLEAN :
         /\ registry' = IF pushed
                        THEN [registry EXCEPT
                                 !.manifest_pushes = registry.manifest_pushes + 1,
                                 !.manifest_arches = Sorted(orch.arches)]
                        ELSE registry
         /\ orch' = IF pushed
                    THEN [orch EXCEPT !.pc = "finish_update",
                                      !.push_attempts = orch.push_attempts + 1]
                    ELSE [orch EXCEPT !.pc = "raised",
                                      !.push_attempts = orch.push_attempts + 1,
                                      !.err = Error("Failed to push the manifest list",
                                                    "", <<>>)]
    /\ UNCHANGED <<shell, inputs, request, wpc, wread, wsteps, dispatched, poll_obs, marked>>

finish_payload_without_state ==
    [index_image |-> "registry/iib-build:request_id"]

\* Lines 140-144: the payload of the last update.
finish_payload ==
    [index_image |-> "registry/iib-build:request_id",
     state |-> "complete",
     state_reason |-> Reason("The request completed successfully", <<>>)]

\* Lines 140-145.
FinishUpdate ==
    /\ orch.pc = "finish_update"
    /\ \E out \in update_request(request, finish_payload) :
         /\ request' = out.req
         /\ orch' = IF out.ok THEN [orch EXCEPT !.pc = "done"]
                    ELSE Raise(WriteRefused)
    /\ UNCHANGED <<shell, inputs, wpc, wread, wsteps, registry, dispatched, poll_obs, marked>>

\* ------------------------------------------------------- opm_index_add

worker_guard_never(state) == FALSE

\* Line 453: whether the worker returns without building.
worker_guard(state) == state = "failed"

\* Line 452-453: the worker reads the request.
WorkerCheck(a) ==
    /\ wpc[a] = "queued"
    /\ wread' = [wread EXCEPT ![a] = request.state]
    /\ wsteps' = [wsteps EXCEPT ![a] = Append(wsteps[a], "CHECK")]
    /\ wpc' = [wpc EXCEPT ![a] = IF worker_guard(request.state)
                                 THEN "check_failed" ELSE "clean"]
    /\ UNCHANGED <<shell, inputs, request, orch, registry, dispatched, poll_obs, marked>>

\* Lines 454-459: the guard's write, and the return.
WorkerGuardWrite(a) ==
    /\ wpc[a] = "check_failed"
    /\ \E out \in set_request_state(request, "failed",
                    Reason("Not building since the request has already failed", <<a>>)) :
         /\ request' = out.req
         /\ wpc' = [wpc EXCEPT ![a] = IF out.ok THEN "guarded" ELSE "raised"]
    /\ UNCHANGED <<shell, inputs, orch, wread, wsteps, registry, dispatched, poll_obs, marked>>

StepName(pc) ==
    CASE pc = "clean" -> "CLEAN"
      [] pc = "generate" -> "GENERATE"
      [] pc = "patch" -> "PATCH"
      [] pc = "build" -> "BUILD"
      [] pc = "push" -> "PUSH"
      [] pc = "report" -> "REPORT"

next_step_skipping_push(pc) ==
    CASE pc = "clean" -> "generate"
      [] pc = "generate" -> "patch"
      [] pc = "patch" -> "build"
      [] pc = "build" -> "report"
      [] pc = "push" -> "report"

\* Lines 461-493: the step after each step of the worker.
next_step(pc) ==
    CASE pc = "clean" -> "generate"
      [] pc = "generate" -> "patch"
      [] pc = "patch" -> "build"
      [] pc = "build" -> "push"
      [] pc = "push" -> "report"

\* Lines 461-492: _cleanup, opm index add --generate, _fix_opm_path,
\* _build_image, _push_arch_image. Each succeeds, or raises and ends the task.
WorkerStep(a) ==
    /\ wpc[a] \in {"clean", "generate", "patch", "build", "push"}
    /\ wsteps' = [wsteps EXCEPT ![a] = Append(wsteps[a], StepName(wpc[a]))]
    /\ \E ok \in BOOLEAN :
         /\ wpc' = [wpc EXCEPT ![a] = IF ok THEN next_step(wpc[a]) ELSE "raised"]
         /\ registry' = IF ok /\ wpc[a] = "push"
                        THEN [registry EXCEPT !.images = registry.images \cup {a}]
                        ELSE registry
    /\ UNCHANGED <<shell, inputs, request, orch, wread, dispatched, poll_obs, marked>>

report_payload_without_arch(a) == [arches |-> <<>>]

\* Line 494: the payload of the report.
report_payload(a) == [arches |-> <<a>>]

\* Lines 493-495: the arch is added to the request, unless the API call fails.
WorkerReport(a) ==
    /\ wpc[a] = "report"
    /\ wsteps' = [wsteps EXCEPT ![a] = Append(wsteps[a], "REPORT")]
    /\ \/ \E out \in update_request(request, report_payload(a)) :
            /\ request' = out.req
            /\ wpc' = [wpc EXCEPT ![a] = IF out.ok THEN "done" ELSE "raised"]
       \/ /\ request' = request
          /\ wpc' = [wpc EXCEPT ![a] = "raised"]
    /\ UNCHANGED <<shell, inputs, orch, wread, registry, dispatched, poll_obs, marked>>

\* failed_request_callback (iib.workers.tasks.general), linked at line 426:
\* the job queue calls it when the worker raised; it sets the request failed.
ErrorCallback(a) ==
    /\ wpc[a] = "raised"
    /\ \E out \in set_request_state(request, "failed",
                                    Reason("The worker task failed", <<a>>)) :
         /\ request' = out.req
         /\ marked' = IF out.ok /\ ~StaleWrite(request, [state |-> "failed"])
                      THEN marked \cup {a} ELSE marked
    /\ wpc' = [wpc EXCEPT ![a] = "called_back"]
    /\ UNCHANGED <<shell, inputs, orch, wread, wsteps, registry, dispatched, poll_obs>>

\* ------------------------------------------------ a second delivery

Ended(pc) == pc \in {"returned", "raised", "done"}
Quiet(pc) == pc \in {"idle", "done", "guarded", "called_back"}

\* The task of a request that is already complete or failed is executed
\* again (the case the comment at lines 342-345 guards against), once the
\* jobs of the earlier execution have ended.
Redeliver ==
    /\ Ended(orch.pc)
    /\ orch.run < MaxRuns
    /\ Terminal(request.state)
    /\ \A a \in Arches : Quiet(wpc[a])
    /\ orch' = NewOrch(orch.run + 1, request)
    /\ wpc' = [a \in Arches |-> "idle"]
    /\ wread' = [a \in Arches |-> "None"]
    /\ wsteps' = [a \in Arches |-> <<>>]
    /\ dispatched' = <<>>
    /\ poll_obs' = NoObs
    /\ UNCHANGED <<shell, inputs, request, registry, marked>>

Next ==
    \/ PrepareSetState
    \/ PrepareResolve
    \/ PrepareUpdate
    \/ Dispatch
    \/ Poll
    \/ FinishSetState
    \/ FinishPush
    \/ FinishUpdate
    \/ \E a \in Arches : WorkerCheck(a)
    \/ \E a \in Arches : WorkerGuardWrite(a)
    \/ \E a \in Arches : WorkerStep(a)
    \/ \E a \in Arches : WorkerReport(a)
    \/ \E a \in Arches : ErrorCallback(a)
    \/ Redeliver

Spec == Init /\ [][Next]_vars

\* The task of handle_add_request runs on to its end, and so does each
\* dispatched opm_index_add task; the job queue calls the error callback of
\* a task that raised. A second delivery need not happen.
Fairness ==
    /\ WF_vars(PrepareSetState)
    /\ WF_vars(PrepareResolve)
    /\ WF_vars(PrepareUpdate)
    /\ WF_vars(Dispatch)
    /\ WF_vars(Poll)
    /\ WF_vars(FinishSetState)
    /\ WF_vars(FinishPush)
    /\ WF_vars(FinishUpdate)
    /\ \A a \in Arches :
          /\ WF_vars(WorkerCheck(a))
          /\ WF_vars(WorkerGuardWrite(a))
          /\ WF_vars(WorkerStep(a))
          /\ WF_vars(WorkerReport(a))
          /\ WF_vars(ErrorCallback(a))

SpecLive == Init /\ [][Next]_vars /\ Fairness

\* --------------------------------------------------- one call of _run_cmd

InitRunCmd ==
    /\ InitRequest(CHOOSE inp \in SagaInputs : TRUE)
    /\ \E credentials \in RegistryCredentials :
         \E c \in Commands(credentials) :
            shell = [NoCall EXCEPT !.pc = "called", !.cmd = c.cmd,
                                   !.exc_msg = c.exc_msg,
                                   !.credentials = credentials]

\* Line 516: subprocess.run.
SubprocessRun ==
    /\ shell.pc = "called"
    /\ \/ shell' = [shell EXCEPT !.pc = "ran", !.returncode = 0]
       \/ \E stderr \in StderrTexts(shell.cmd, shell.credentials) :
             shell' = [shell EXCEPT !.pc = "ran", !.returncode = 1,
                                    !.stderr = stderr]
    /\ UNCHANGED <<inputs, request, orch, wpc, wread, wsteps, registry,
                   dispatched, poll_obs, marked>>

\* Lines 518-526: the failure is logged and raised.
RunCmdFailed ==
    /\ shell.pc = "ran"
    /\ shell.returncode # 0
    /\ shell' = [shell EXCEPT
                    !.pc = "raised",
                    !.log = error_log(shell.cmd, shell.credentials, shell.stderr),
                    !.raised = error_message(shell.exc_msg)]
    /\ UNCHANGED <<inputs, request, orch, wpc, wread, wsteps, registry,
                   dispatched, poll_obs, marked>>

\* Line 528.
RunCmdReturned ==
    /\ shell.pc = "ran"
    /\ shell.returncode = 0
    /\ shell' = [shell EXCEPT !.pc = "returned"]
    /\ UNCHANGED <<inputs, request, orch, wpc, wread, wsteps, registry,
                   dispatched, poll_obs, marked>>

NextRunCmd == SubprocessRun \/ RunCmdFailed \/ RunCmdReturned

SpecRunCmd == InitRunCmd /\ [][NextRunCmd]_vars

\* ================================================================ claims

\* The target arches as the request states them: add_arches together with
\* the arches of from_index when one is given.
TargetSet ==
    SetOf(inputs.add_arches)
        \cup (IF inputs.from_index.present THEN inputs.from_index.arches ELSE {})

\* Every inspection of prepare answers with a manifest list.
ResolutionOK ==
    /\ inputs.binary_image.resolves /\ inputs.binary_image.is_list
    /\ inputs.from_index.present =>
           (inputs.from_index.resolves /\ inputs.from_index.is_list)

Finishing(pc) == pc \in {"finish_set_state", "finish_push", "finish_update", "done"}

\* C1: within one run of handle_add_request the manifest list is pushed at
\* most once, and the run gets to the push only after a poll read the request
\* in state in_progress with every target arch among its finished arches.
C1_PushOnceAfterFullPoll ==
    /\ orch.push_attempts <= 1
    /\ (orch.push_attempts > 0 \/ Finishing(orch.pc)) =>
           /\ poll_obs.state = "in_progress"
           /\ orch.arches \subseteq poll_obs.arches
           /\ orch.arches # {}

C1_Witness ==
    /\ orch.push_attempts = 1
    /\ registry.manifest_pushes = 1
    /\ Cardinality(orch.arches) >= 2
    /\ poll_obs.state = "in_progress"

\* C2: a run of handle_add_request that starts when the request is already
\* complete never gets a True from its poll, never reaches finish and never
\* pushes the manifest list; a poll it makes reads a state other than
\* in_progress and the run returns.
C2_SecondRunDoesNotPush ==
    (orch.run > 1 /\ orch.start_state = "complete") =>
        /\ orch.push_attempts = 0
        /\ ~Finishing(orch.pc)
        /\ orch.poll_result # "True"
        /\ registry.manifest_pushes = 1
        /\ poll_obs # NoObs => (poll_obs.state # "in_progress" /\ orch.pc = "returned")

C2_Witness ==
    /\ orch.run = 2
    /\ orch.start_state = "complete"
    /\ orch.pc = "returned"
    /\ poll_obs.state = "complete"
    /\ orch.arches \subseteq poll_obs.arches

\* C3: once the request is failed or complete, no step of the orchestrator,
\* of a worker or of an error callback leaves it in_progress.
C3_StateMonotonic ==
    [][Terminal(request.state) => request'.state # "in_progress"]_vars

\* Prepare of a second run wrote in_progress over a complete request, and the
\* request is still complete.
C3_Witness ==
    /\ orch.run = 2
    /\ orch.pc = "prepare_resolve"
    /\ request.state = "complete"

\* C4: once the error callback of a failed worker has marked the request
\* failed, the request is failed and stays so: it is not complete, index_image
\* is not set and the manifest list was not and is not pushed.
C4_OneFailureFailsRequest ==
    marked # {} =>
        /\ request.state = "failed"
        /\ request.index_image = "None"
        /\ registry.manifest_pushes = 0
        /\ orch.push_attempts = 0
        /\ ~Finishing(orch.pc)

\* One worker failed and was called back, another reported its arch, and the
\* orchestrator has returned.
C4_Witness ==
    /\ marked # {}
    /\ \E a \in Arches : wpc[a] = "done" /\ a \in request.arches
    /\ orch.pc = "returned"

\* C5: a worker that read state failed at CHECK runs no step after CHECK (no
\* CLEAN, GENERATE, PATCH, BUILD, PUSH or REPORT), the request stays failed,
\* and the one write it makes sets state failed with a reason naming its arch
\* and changes neither the finished arches nor the registry.
C5_GuardedWorkerOnlyMarksFailed ==
    /\ [](\A a \in Arches : wread[a] = "failed" =>
            /\ wsteps[a] = <<"CHECK">>
            /\ wpc[a] \in {"check_failed", "guarded"}
            /\ request.state = "failed")
    /\ [][\A a \in Arches :
            (wpc[a] = "check_failed" /\ wpc'[a] # "check_failed") =>
                /\ wpc'[a] = "guarded"
                /\ request'.state = "failed"
                /\ request'.state_reason.names = <<a>>
                /\ request'.arches = request.arches
                /\ request'.index_image = request.index_image
                /\ registry' = registry]_vars

C5_Witness ==
    \E a \in Arches :
        /\ wread[a] = "failed"
        /\ wpc[a] = "guarded"
        /\ request.state_reason.names = <<a>>
        /\ a \notin registry.images

\* C6: a worker that read a terminal state (failed or complete) at CHECK
\* runs neither BUILD nor PUSH.
C6_NoBuildOnTerminalRequest ==
    \A a \in Arches :
        Terminal(wread[a]) =>
            /\ "BUILD" \notin SetOf(wsteps[a])
            /\ "PUSH" \notin SetOf(wsteps[a])

\* C7: the finished arches of the request never lose an element.
C7_ArchesAppendOnly ==
    [][request.arches \subseteq request'.arches]_vars

\* Two workers reported, around an error callback and a poll.
C7_Witness ==
    /\ Cardinality(request.arches) >= 2
    /\ marked # {}
    /\ poll_obs # NoObs

\* C8 as stated: with the inspections succeeding, prepare succeeds exactly
\* when the target set is within the binary image's arches and within the
\* configured arches.
C8_Original ==
    ResolutionOK =>
        /\ orch.pc = "dispatch" =>
               (TargetSet \subseteq inputs.binary_image.arches
                /\ TargetSet \subseteq inputs.iib_arches)
        /\ orch.pc = "raised" =>
               ~(TargetSet \subseteq inputs.binary_image.arches
                 /\ TargetSet \subseteq inputs.iib_arches)

\* C8, amended: with the inspections succeeding, prepare succeeds exactly
\* when the target set is not empty, is within the binary image's arches and
\* is within the configured arches.
C8_PrepareSucceedsIff ==
    ResolutionOK =>
        /\ orch.pc \in {"prepare_update", "dispatch"} =>
               /\ TargetSet # {}
               /\ TargetSet \subseteq inputs.binary_image.arches
               /\ TargetSet \subseteq inputs.iib_arches
        /\ orch.pc = "raised" =>
               ~(/\ TargetSet # {}
                 /\ TargetSet \subseteq inputs.binary_image.arches
                 /\ TargetSet \subseteq inputs.iib_arches)

C8_Witness ==
    /\ orch.pc = "dispatch"
    /\ Cardinality(TargetSet) >= 2
    /\ TargetSet # inputs.binary_image.arches
    /\ TargetSet # inputs.iib_arches

\* C9 as stated: prepare fails with the no-arches error exactly when
\* add_arches and the arches of from_index are both empty, and on success
\* returns their union.
C9_Original ==
    /\ orch.pc = "raised" => (orch.err.kind = NoArchesMsg <=> TargetSet = {})
    /\ orch.pc \in {"prepare_update", "dispatch"} =>
           (orch.arches = TargetSet /\ TargetSet # {})

\* C9, amended: provided the inspections of the binary image and of
\* from_index succeed, prepare fails with the no-arches error exactly when
\* the union is empty; on success the returned arches are the union.
C9_TargetIsUnion ==
    /\ (ResolutionOK /\ orch.pc = "raised") =>
           (orch.err.kind = NoArchesMsg <=> TargetSet = {})
    /\ orch.err.kind = NoArchesMsg => TargetSet = {}
    /\ orch.pc \in {"prepare_update", "dispatch"} =>
           (orch.arches = TargetSet /\ TargetSet # {})

\* The union is larger than add_arches and than the arches of from_index.
C9_Witness ==
    /\ orch.pc = "dispatch"
    /\ inputs.from_index.present
    /\ orch.arches # SetOf(inputs.add_arches)
    /\ orch.arches # inputs.from_index.arches
    /\ inputs.add_arches # <<>>

\* C10: the binary-image error is raised exactly for a non-empty target set
\* A not within the binary image's arches B and names exactly A \ B; the
\* global-support error is raised exactly for A within B and not within the
\* configured arches G and names exactly A \ G; each arch is named once.
C10_ErrorNamesUnsupported ==
    LET A == TargetSet
        B == inputs.binary_image.arches
        G == inputs.iib_arches
        names == orch.err.names
    IN /\ orch.err.kind = BinaryArchMsg =>
              /\ A # {} /\ ~(A \subseteq B)
              /\ SetOf(names) = A \ B
              /\ Len(names) = Cardinality(A \ B)
       /\ orch.err.kind = GlobalArchMsg =>
              /\ A # {} /\ A \subseteq B /\ ~(A \subseteq G)
              /\ SetOf(names) = A \ G
              /\ Len(names) = Cardinality(A \ G)
       /\ (ResolutionOK /\ orch.pc = "raised" /\ A # {}) =>
              /\ ~(A \subseteq B) => orch.err.kind = BinaryArchMsg
              /\ (A \subseteq B /\ ~(A \subseteq G)) => orch.err.kind = GlobalArchMsg

\* from_index is built for a supported and an unsupported arch; only the
\* unsupported one is named.
C10_Witness ==
    /\ orch.pc = "raised"
    /\ orch.err.kind = GlobalArchMsg
    /\ Len(orch.err.names) = 1
    /\ Cardinality(TargetSet) = 2
    /\ inputs.from_index.present
    /\ inputs.from_index.arches = TargetSet

\* The errors lines 203-297 of prepare raise: an image cannot be inspected,
\* is no manifest list, no arches, unsupported arches.
PrepareErrorKinds ==
    {"Failed to inspect", "is not a v2 manifest list",
     NoArchesMsg, BinaryArchMsg, GlobalArchMsg}

\* C11: when prepare fails on its inputs the task has ended: no job was
\* submitted and no worker exists, the run has not polled and has not pushed
\* a manifest list, and binary_image_resolved, from_index_resolved, the
\* finished arches and index_image of the request are as they were.
C11_PrepareFailureAbortsSaga ==
    orch.err.kind \in PrepareErrorKinds =>
        /\ orch.pc = "raised"
        /\ dispatched = <<>>
        /\ \A a \in Arches : wpc[a] = "idle"
        /\ poll_obs = NoObs
        /\ orch.push_attempts = 0
        /\ registry.manifest_pushes = 0
        /\ request.binary_image_resolved = NewRequest.binary_image_resolved
        /\ request.from_index_resolved = NewRequest.from_index_resolved
        /\ request.arches = NewRequest.arches
        /\ request.index_image = NewRequest.index_image

\* Prepare failed on an unsupported arch after from_index was resolved.
C11_Witness ==
    /\ orch.pc = "raised"
    /\ orch.err.kind = GlobalArchMsg
    /\ inputs.from_index.present
    /\ request.state = "in_progress"
    /\ request.from_index_resolved = "None"

\* Something failed in the run: handle_add_request raised, or a worker did.
SomethingFailed ==
    \/ orch.pc = "raised"
    \/ \E a \in Arches : wpc[a] \in {"raised", "called_back"}

\* C12: under fair scheduling, whatever the order in which the workers run
\* and report, a run in which nothing fails gets to the end of finish: its
\* poll returned True, the manifest list was pushed once, and the request is
\* complete with index_image set. The manifest list is never pushed twice.
C12_SuccessLiveness ==
    /\ <>(\/ SomethingFailed
          \/ /\ orch.pc = "done"
             /\ orch.poll_result = "True"
             /\ orch.push_attempts = 1
             /\ registry.manifest_pushes = 1
             /\ request.state = "complete"
             /\ request.index_image = finish_payload.index_image)
    /\ [](registry.manifest_pushes <= 1)

\* The first run ended with three workers done and nothing failed.
C12_Witness ==
    /\ ~SomethingFailed
    /\ orch.run = 1
    /\ orch.pc = "done"
    /\ request.state = "complete"
    /\ \A a \in Arches : wpc[a] = "done"

\* C13: when the request is failed while the orchestrator polls, the next
\* poll reads failed and the run returns; a run that returned on reading
\* failed attempted no manifest push, takes no further step (so it writes
\* nothing more), and the request stays failed with no index_image.
C13_AbortOnFailure ==
    /\ (orch.pc = "poll" /\ request.state = "failed")
           ~> (orch.pc = "returned" /\ poll_obs.state = "failed")
    /\ []((orch.pc = "returned" /\ poll_obs.state = "failed") =>
            /\ orch.poll_result = "False"
            /\ orch.push_attempts = 0
            /\ registry.manifest_pushes = 0
            /\ request.state = "failed"
            /\ request.index_image = "None")
    /\ [][(orch.pc = "returned" /\ orch'.run = orch.run) => orch' = orch]_vars

\* The run returned on reading failed while an arch it still waited for was
\* being built.
C13_Witness ==
    /\ orch.pc = "returned"
    /\ poll_obs.state = "failed"
    /\ \E a \in orch.arches_remaining : wpc[a] \in {"generate", "patch", "build"}

\* C14: nothing stops a worker that passed CHECK: whatever the state of the
\* request, a worker at a step after CHECK can take it, and a REPORT made
\* while the request is failed adds the arch to the finished arches and
\* leaves the request failed.
C14_NoCancellation ==
    /\ [](\A a \in Arches :
            /\ wpc[a] \in {"clean", "generate", "patch", "build", "push"} =>
                   ENABLED WorkerStep(a)
            /\ wpc[a] = "report" => ENABLED WorkerReport(a))
    /\ [][\A a \in Arches :
            (request.state = "failed" /\ wpc[a] = "report" /\ wpc'[a] = "done") =>
                /\ a \in request'.arches
                /\ request'.arches = request.arches \cup {a}
                /\ request'.state = "failed"]_vars

\* The orchestrator read failed and returned; an arch that its last poll did
\* not see finished was built, pushed and reported after that by a worker
\* that had read a state other than failed, and the request is still failed.
C14_Witness ==
    /\ orch.pc = "returned"
    /\ poll_obs.state = "failed"
    /\ request.state = "failed"
    /\ \E a \in Arches :
          /\ wpc[a] = "done"
          /\ wread[a] = "in_progress"
          /\ a \in request.arches
          /\ a \notin poll_obs.arches
          /\ a \in registry.images

\* C15: there is no timeout in the poll loop. While the request is
\* in_progress and an arch the run waits for is not among the finished
\* arches, no step takes the orchestrator out of the loop or pushes a
\* manifest list; the loop can always poll once more, and a poll writes
\* nothing to the request.
C15_NoPollTimeout ==
    /\ [][(/\ orch.pc = "poll"
           /\ request.state = "in_progress"
           /\ ~(orch.arches_remaining \subseteq request.arches)) =>
              /\ orch'.pc = "poll"
              /\ orch'.push_attempts = 0
              /\ registry'.manifest_pushes = registry.manifest_pushes]_vars
    /\ [][(orch.pc = "poll" /\ orch' # orch) => request' = request]_vars
    /\ [](orch.pc = "poll" => ENABLED Poll)

\* The loop has polled, one arch is finished, and the worker of another has
\* not reported and has not failed.
C15_Witness ==
    /\ orch.pc = "poll"
    /\ orch.poll_result = "None"
    /\ poll_obs.state = "in_progress"
    /\ orch.arches_remaining # orch.arches
    /\ \E a \in orch.arches_remaining : wpc[a] = "build"
    /\ \A a \in Arches : wpc[a] \notin {"raised", "called_back"}

\* C16: index_image is set exactly when the request is complete, a complete
\* request has every target arch among its finished arches, and once set
\* index_image is never changed.
C16_IndexImageIffComplete ==
    /\ [](/\ request.index_image # "None" <=> request.state = "complete"
          /\ request.state = "complete" =>
                 (TargetSet # {} /\ TargetSet \subseteq request.arches))
    /\ [][request.index_image # "None" =>
              request'.index_image = request.index_image]_vars

\* The request is complete with its index_image, for two or more arches,
\* and a second run has gone through prepare and polled.
C16_Witness ==
    /\ request.state = "complete"
    /\ request.index_image = "registry/iib-build:request_id"
    /\ Cardinality(TargetSet) >= 2
    /\ orch.run = 2
    /\ poll_obs # NoObs

\* C17: when the push of the manifest list fails, finish raises and the task
\* ends: index_image is not set, the request is not complete and no manifest
\* list is in the registry; the request is as the write of line 138 left it,
\* in_progress with the reason "Creating the manifest list".
C17_PushFailureLeavesInProgress ==
    orch.err.kind = "Failed to push the manifest list" =>
        /\ orch.pc = "raised"
        /\ orch.push_attempts = 1
        /\ registry.manifest_pushes = 0
        /\ request.index_image = "None"
        /\ request.state = "in_progress"
        /\ request.state_reason = Reason("Creating the manifest list", <<>>)

\* Every worker reported, the poll returned True, and the push failed.
C17_Witness ==
    /\ orch.err.kind = "Failed to push the manifest list"
    /\ orch.poll_result = "True"
    /\ TargetSet \subseteq request.arches
    /\ Cardinality(TargetSet) >= 2

\* C18: after a command failed, neither the registry credentials nor the
\* password occur in the text that was logged (the command line and the
\* stderr of the command) or in the message of the error raised.
C18_NoCredentialsInErrorText ==
    shell.pc = "raised" =>
        /\ ~Contains(shell.log, shell.credentials)
        /\ ~Contains(shell.log, Password(shell.credentials))
        /\ ~Contains(shell.raised, shell.credentials)
        /\ ~Contains(shell.raised, Password(shell.credentials))

Rank(arch) == CHOOSE i \in DOMAIN ArchOrder : ArchOrder[i] = arch
DispatchedArches == {dispatched[i][2] : i \in DOMAIN dispatched}

\* C19: the jobs submitted are one per target architecture, in sorted
\* architecture order, each to the queue iib_<arch>, and none for an
\* architecture outside the target set; once dispatch is over every target
\* architecture has its job; dispatch goes on whatever the state of the
\* request is, also when a worker dispatched earlier has failed it; and
\* only a dispatched architecture has a worker.
C19_DispatchOnePerTargetArch ==
    /\ DispatchedArches \subseteq TargetSet
    /\ \A i \in DOMAIN dispatched :
          /\ dispatched[i][1] = "iib"
          /\ \A j \in DOMAIN dispatched :
                i < j => Rank(dispatched[i][2]) < Rank(dispatched[j][2])
    /\ orch.pc \in {"poll", "finish_set_state", "finish_push", "finish_update",
                    "done", "returned"}
          => /\ DispatchedArches = TargetSet
             /\ Len(dispatched) = Cardinality(TargetSet)
    /\ orch.pc = "dispatch" => orch.to_dispatch # <<>> /\ ENABLED Dispatch
    /\ \A a \in Arches : wpc[a] # "idle" => a \in DispatchedArches

\* A worker dispatched earlier has failed the request while jobs are still
\* to be dispatched.
C19_Witness ==
    /\ orch.run = 1
    /\ orch.pc = "dispatch"
    /\ Len(dispatched) >= 1
    /\ orch.to_dispatch # <<>>
    /\ request.state = "failed"
    /\ marked # {}

WorkerSteps == <<"CHECK", "CLEAN", "GENERATE", "PATCH", "BUILD", "PUSH", "REPORT">>
WorkerStopped(pc) ==
    pc \in {"check_failed", "guarded", "raised", "called_back", "done"}

C20_StepsInOrder ==
    /\ \A a \in Arches :
          /\ Len(wsteps[a]) <= Len(WorkerSteps)
          /\ wsteps[a] = SubSeq(WorkerSteps, 1, Len(wsteps[a]))
    /\ \A a \in request.arches : a \in registry.images
    /\ registry.manifest_pushes > 0 =>
          SetOf(registry.manifest_arches) \subseteq registry.images

C20_NoStepAfterStop ==
    \A a \in Arches :
        (WorkerStopped(wpc[a]) /\ orch'.run = orch.run) =>
            /\ wsteps'[a] = wsteps[a]
            /\ WorkerStopped(wpc'[a])
            /\ (a \in registry'.images) = (a \in registry.images)

\* C20: the steps a worker has taken are always a beginning of CHECK, CLEAN,
\* GENERATE, PATCH, BUILD, PUSH, REPORT; a worker that has stopped (its guard
\* fired, a step raised, or it reported) takes no further step in that
\* execution and pushes nothing; every architecture among the finished
\* arches of the request has its single-arch image pushed; and when the
\* manifest list has been pushed every architecture listed in it has a
\* pushed image.
C20_WorkerStepsInOrder == []C20_StepsInOrder /\ [][C20_NoStepAfterStop]_vars

\* The manifest list was pushed after two workers went through all seven
\* steps.
C20_Witness ==
    /\ registry.manifest_pushes = 1
    /\ Len(registry.manifest_arches) >= 2
    /\ \A a \in SetOf(registry.manifest_arches) : wsteps[a] = WorkerSteps

RequestStates == {"queued", "in_progress", "complete", "failed"}

\* What the loop has to answer on a read of a request in state st whose
\* finished arches are done, when the arches seen in the reads before are
\* seen, for the target set target.
PollAnswer(st, done, seen, target) ==
    IF st # "in_progress" THEN "False"
    ELSE IF target \subseteq (seen \cup done) THEN "True"
    ELSE "None"

\* The target arches the reads so far have shown.
SeenSoFar == orch.arches \cap poll_obs.arches

\* At every read of the loop, whatever state the request is read in.
C21_PollState ==
    orch.pc = "poll" =>
       /\ orch.arches = TargetSet
       /\ orch.arches \ orch.arches_remaining = SeenSoFar
       /\ \A st \in RequestStates :
             poll_decision([request EXCEPT !.state = st],
                           orch.arches_remaining).result
                = PollAnswer(st, request.arches, SeenSoFar, TargetSet)

C21_PollStep ==
    orch.pc = "poll" /\ orch' # orch =>
       LET answer == PollAnswer(request.state, request.arches, SeenSoFar, TargetSet)
       IN /\ orch'.poll_result = answer
          /\ answer = "False" => orch'.pc = "returned"
          /\ answer = "True" => orch'.pc = "finish_set_state"
          /\ answer = "None" => orch'.pc = "poll"
          /\ poll_obs'.state = request.state
          /\ poll_obs'.arches = request.arches

\* C21: on every read of the poll loop the state is tested before the
\* progress: a read of a request that is not in_progress (failed, complete or
\* queued) makes the loop return false, also when the finished arches cover
\* the target set; the loop returns true only on a read of an in_progress
\* request when the arches seen in the reads so far cover the target set;
\* on every other read it goes on polling.
C21_StateBeforeProgress == []C21_PollState /\ [][C21_PollStep]_vars

\* A poll read a request that is not in_progress while its finished arches
\* cover the target set, and returned false.
C21_Witness ==
    /\ orch.pc = "returned"
    /\ orch.poll_result = "False"
    /\ poll_obs.state \in {"complete", "failed", "queued"}
    /\ TargetSet # {}
    /\ TargetSet \subseteq poll_obs.arches

====
